---- MODULE Spec2Model ----
(***************************************************************************)
(* Batch-mutation pipeline of automacoes-Mobile-Mercado: the renamer       *)
(* (automator.py), the categorizer and the targeted categorizer (app.py),  *)
(* their run threads, the batches handed to ThreadPoolExecutor.map, the    *)
(* undo store and the HTTP handlers that start, stop and undo a run.       *)
(***************************************************************************)
EXTENDS Integers, Sequences, FiniteSets, TLC

\* ------------------------------------------------------------------------
\* Bounds of the model
\* ------------------------------------------------------------------------
NumProducts == 3      \* documents of the Products collection
MaxRuns == 1          \* run threads that start requests may spawn
MaxStoreFaults == 1   \* store calls that raise
MaxSinkFaults == 1    \* steps during which socketio.emit raises

\* BATCH_SIZE is 20 in the source; the model scales it down so that a run
\* over NumProducts documents still has more than one batch.
BATCH_SIZE == 2
MaxItems == 5
MaxIdLen == 3
MaxCandidates == 2
min_partial_len == 2
MaxTokenLen == 2
NumNames == 2
log_limit == 6
MaxTokens == 3
MaxPieces == 4
max_workers == 2

\* the scenario of two runs (a second start request while or after the
\* first run): a smaller collection, no faults, no undo request
NumProductsTwo == 2
MaxRunsTwo == 2

Kinds == {"renamer", "categorizer", "categorizer_targeted"}

Min(a, b) == IF a < b THEN a ELSE b

\* ------------------------------------------------------------------------
\* Data: names, categories, documents
\* ------------------------------------------------------------------------
\* A name is a sequence of words; a word is <<letters, case>>, case "U"
\* (upper), "C" (capitalized).  The empty sequence is the empty string.
RawName == << <<"coz", "U">>, <<"frango", "U">> >>
CapName == << <<"coz", "C">>, <<"frango", "C">> >>
NewName == << <<"frango", "C">>, <<"cozido", "C">> >>
ClassifierNames == {RawName, CapName, NewName}

\* ' '.join(w.capitalize() for w in name.strip().split())
format_product_name(name) ==
    [i \in DOMAIN name |-> <<name[i][1], "C">>]

target_category_id == "c1"
outros_cat_id == "outros"
outros_sub_id == "outrosOutros"

\* subcategory id -> categoryId of the loaded vocabulary
SubCategory == [s1 |-> "c1", s2 |-> "c2"]
Subcategories == DOMAIN SubCategory

\* the four fields update_product_categories writes
CategoryFields(category_id, subcategory_id) ==
    [categoriesIds    |-> <<category_id>>,
     subcategoriesIds |-> <<subcategory_id>>,
     shelves          |-> << <<category_id, subcategory_id>> >>,
     shelvesIds       |-> << <<category_id, subcategory_id>> >>]

NoCategoryFields ==
    [categoriesIds |-> <<>>, subcategoriesIds |-> <<>>,
     shelves |-> <<>>, shelvesIds |-> <<>>]

Document(name, description, cats) ==
    [name |-> name, description |-> description, cats |-> cats]

\* the collection before any run: an unformatted product without
\* description, a formatted product with one (both of the target category),
\* an unformatted product of another category, and so on
InitialDocument(p) ==
    CASE p % 3 = 1 -> Document(RawName, <<>>, CategoryFields("c1", "s1"))
      [] p % 3 = 2 -> Document(CapName, CapName, CategoryFields("c1", "s1"))
      [] OTHER     -> Document(RawName, RawName, CategoryFields("c2", "s2"))

InitialStore(n) == [p \in 1..n |-> InitialDocument(p)]

\* ------------------------------------------------------------------------
\* State
\* ------------------------------------------------------------------------
VARIABLES
    running,      \* <kind>_state['running']
    progress,     \* <kind>_state['progress']
    undo_store,   \* undo_store[<kind>]
    store,        \* estabelecimentos/<id>/Products
    run,          \* the run threads spawned by the start handlers
    batch,        \* per run: the tasks executor.map submitted to the pool
    undoReq,      \* the undo request being served, or the last answer
    call,         \* a classifier call inside its retry loop
    calc,         \* a call of a function of the pipeline: arguments, result
    storeFaults, sinkFaults

vars == <<running, progress, undo_store, store, run, batch, undoReq, call,
          calc, storeFaults, sinkFaults>>

Products == DOMAIN store
Runs == DOMAIN run

\* utils.py: the progress dictionaries of the three kinds
ZeroProgress(k, total) ==
    CASE k = "renamer" ->
            [total |-> total, processed |-> 0, updated |-> 0,
             unchanged |-> 0, errors |-> 0]
      [] k = "categorizer" ->
            [total |-> total, processed |-> 0, updated |-> 0, errors |-> 0]
      [] OTHER ->
            [total |-> total, processed |-> 0, updated |-> 0,
             skipped |-> 0, errors |-> 0]

InitialProgress(k) ==
    IF k = "renamer" THEN ZeroProgress(k, 0)
    ELSE [total |-> 0, processed |-> 0, updated |-> 0, errors |-> 0]

\* A run thread.  pc: "none" (not spawned), "spawned" (Thread.start() done,
\* body not begun), "init" (flag set, before the load), "pool" (inside the
\* ThreadPoolExecutor block), "done" (returned), "dead" (ended by an
\* exception nobody caught).  quota_seen and quota_events record what the
\* classifier and emit_quota_exceeded did during the run; stopped records
\* that a stop request reset the flag this run had set.
\* result is the value the run function returned ("True", "False"; "none"
\* before its return and when it ended by an exception).
\* once holds the ids of the items the run has handled, again those it has
\* handled a second time.
\* handled counts the items of the run whose handling came to its end: the
\* item was written, or counted as unchanged, skipped or failed.
NoRun ==
    [pc |-> "none", kind |-> "renamer", dry_run |-> FALSE,
     include_others |-> FALSE, phase |-> 1, phase2 |-> <<>>,
     quota_seen |-> FALSE, quota_events |-> 0, stopped |-> FALSE,
     handled |-> 0, once |-> {}, again |-> {}, result |-> "none"]

\* An undo request.  pc: "idle" (answered; reverted and errors are the
\* counts of the answer), "restore" (inside the for loop, before entry i),
\* "clear" (before the final clear).  quiet says that no thread of a run
\* of that kind was left when the request copied the list.
NoUndo ==
    [pc |-> "idle", key |-> "renamer", changes |-> <<>>, i |-> 1,
     reverted |-> 0, errors |-> 0, quiet |-> TRUE]

\* A classifier call (get_improved_names_batch up to the reply,
\* _call_openai).  pc: "idle", "try" (before attempt number attempt of the
\* for loop), "returned", "raised".  created counts the requests sent,
\* throttled the non-quota rate-limit answers among them, waits lists the
\* time.sleep arguments in milliseconds, error is the last answer that was
\* an error, raised names what left the call, quota_events counts the
\* emit_quota_exceeded calls.
NoError == [type |-> "none", code |-> "none", message |-> "none"]

NoCall ==
    [pc |-> "idle", wrapper |-> "renamer", has_images |-> FALSE,
     attempt |-> 0, created |-> 0, throttled |-> 0, waits |-> <<>>,
     error |-> NoError, raised |-> "none", quota_events |-> 0]

\* no function call under observation
NoCalc == [op |-> "none"]

Init ==
    /\ running = [k \in Kinds |-> FALSE]
    /\ progress = [k \in Kinds |-> InitialProgress(k)]
    /\ undo_store = [k \in Kinds |-> <<>>]
    /\ store = InitialStore(NumProducts)
    /\ run = [r \in 1..MaxRuns |-> NoRun]
    /\ batch = [r \in 1..MaxRuns |-> <<>>]
    /\ undoReq = NoUndo
    /\ call = NoCall
    /\ calc = NoCalc
    /\ storeFaults = MaxStoreFaults
    /\ sinkFaults = MaxSinkFaults

\* ------------------------------------------------------------------------
\* Collaborators: the store and the notification sink
\* ------------------------------------------------------------------------
\* A store call returns (TRUE) or raises (FALSE).
StoreOutcomes == IF storeFaults > 0 THEN {TRUE, FALSE} ELSE {TRUE}

\* socketio.emit returns (TRUE) or raises (FALSE) during the step.  The
\* renamer wraps every emit in try/except, so its steps do not depend on it.
SinkOutcomes(k) ==
    IF k = "renamer" \/ sinkFaults = 0 THEN {TRUE} ELSE {TRUE, FALSE}

Faults(sok, up) ==
    /\ storeFaults' = IF sok THEN storeFaults ELSE storeFaults - 1
    /\ sinkFaults' = IF up THEN sinkFaults ELSE sinkFaults - 1

\* col_ref.stream(): the documents in the order of their ids
ProductSeq == [i \in 1..Cardinality(Products) |-> i]

InSeq(x, s) == \E i \in DOMAIN s : s[i] = x

\* the categories the renamer is asked to process
renamer_categories == {"c1", "c2"}

\* get_products_from_firestore: documents of the requested categories
get_products_from_firestore ==
    LET Wanted(p) == \E c \in renamer_categories :
                        InSeq(c, store[p].cats.categoriesIds)
        ids == SelectSeq(ProductSeq, Wanted)
    IN  [i \in DOMAIN ids |->
            [id |-> ids[i], name |-> store[ids[i]].name,
             description |-> store[ids[i]].description]]

\* load_products without filters: every document (the name only feeds the
\* prompt and is left out)
load_products == [i \in DOMAIN ProductSeq |-> [id |-> ProductSeq[i]]]

\* run_categorization_targeted: phase 1 holds the documents of the target
\* category, phase 2 the others when include_others is set
Phase1Products ==
    LET In(p) == InSeq(target_category_id, store[p].cats.categoriesIds)
        ids == SelectSeq(ProductSeq, In)
    IN  [i \in DOMAIN ids |-> [id |-> ids[i]]]

\* phase 2 without its test of the category
Phase2Products_unfiltered(include_others) ==
    LET ids == IF include_others THEN ProductSeq ELSE <<>>
    IN  [i \in DOMAIN ids |-> [id |-> ids[i]]]

Phase2Products(include_others) ==
    LET Out(p) == ~InSeq(target_category_id, store[p].cats.categoriesIds)
        ids == IF include_others THEN SelectSeq(ProductSeq, Out) ELSE <<>>
    IN  [i \in DOMAIN ids |-> [id |-> ids[i]]]

\* ------------------------------------------------------------------------
\* Batches
\* ------------------------------------------------------------------------
NumBatches(total) == (total + BATCH_SIZE - 1) \div BATCH_SIZE

\* the split without its last, shorter batch
Batches_full_only(products) ==
    [k \in 1..(Len(products) \div BATCH_SIZE) |->
        SubSeq(products, (k - 1) * BATCH_SIZE + 1, k * BATCH_SIZE)]

\* [products[s:s + BATCH_SIZE] for s in range(0, total, BATCH_SIZE)]
Batches(products) ==
    [k \in 1..NumBatches(Len(products)) |->
        SubSeq(products, (k - 1) * BATCH_SIZE + 1,
               Min(k * BATCH_SIZE, Len(products)))]

NoPending == [product_id |-> 0]

\* executor.map(f, ((i * BATCH_SIZE, b) for i, b in enumerate(batches))):
\* one task per batch, all submitted at once.  pc: "queued", "call" (before
\* the classifier call), "item" (before item j), "append" (document
\* written, record not yet appended), "done" (returned), "raised" (ended by
\* an exception), "cancelled".  outcome is what the classifier call gave;
\* late says that the task began after a quota failure of the run.
Tasks(products) ==
    LET bs == Batches(products)
    IN  [k \in DOMAIN bs |->
            [pc |-> "queued", batch_start |-> (k - 1) * BATCH_SIZE,
             items |-> bs[k], j |-> 1, outcome |-> "none", late |-> FALSE,
             pending |-> NoPending]]

Active(r) ==
    {b \in DOMAIN batch[r] : batch[r][b].pc \in {"call", "item", "append"}}

\* the ids of the products of a task
ItemIds(t) == {t.items[i].id : i \in DOMAIN t.items}

Finished(r, b) == batch[r][b].pc \in {"done", "raised", "cancelled"}

\* ------------------------------------------------------------------------
\* Start and stop handlers
\* ------------------------------------------------------------------------
\* start_automation, start_categorization, start_categorization_targeted:
\* reject when the flag is set, otherwise start a thread and answer
Start(k, dry_run, include_others) ==
    /\ ~running[k]
    /\ \E r \in Runs :
        /\ run[r].pc = "none"
        /\ \A q \in Runs : q < r => run[q].pc # "none"
        /\ run' = [run EXCEPT ![r] =
                     [NoRun EXCEPT !.pc = "spawned", !.kind = k,
                                   !.dry_run = dry_run,
                                   !.include_others = include_others]]
    /\ UNCHANGED <<call, calc, running, progress, undo_store, store, batch, undoReq, storeFaults, sinkFaults>>

\* stop_automation, stop_categorization, stop_categorization_targeted
Stop(k) ==
    /\ running[k]
    /\ running' = [running EXCEPT ![k] = FALSE]
    /\ run' = [r \in Runs |->
                 IF run[r].kind = k /\ run[r].pc \in {"init", "pool"}
                 THEN [run[r] EXCEPT !.stopped = TRUE]
                 ELSE run[r]]
    /\ UNCHANGED <<call, calc, progress, undo_store, store, batch, undoReq, storeFaults, sinkFaults>>

\* ------------------------------------------------------------------------
\* Run threads
\* ------------------------------------------------------------------------
\* The end of a run thread.  Leaving normally, or through the except
\* clause while the sink works, resets the flag.  When the sink raises, the
\* log_message of the except clause raises too and the thread ends before
\* the flag is reset.
EndRun(r, up, value) ==
    LET k == run[r].kind
    IN  /\ running' = IF up THEN [running EXCEPT ![k] = FALSE] ELSE running
        /\ run' = [run EXCEPT ![r].pc = IF up THEN "done" ELSE "dead",
                              ![r].result = IF up THEN value ELSE "none"]

\* run_automation, run_categorization, run_categorization_targeted up to
\* the first log line: set the flag, reset logs and progress, clear the
\* undo store
RunInit(r) ==
    /\ run[r].pc = "spawned"
    /\ LET k == run[r].kind
       IN  /\ progress' = [progress EXCEPT ![k] = ZeroProgress(k, 0)]
           /\ undo_store' = [undo_store EXCEPT ![k] = <<>>]
           /\ \E up \in SinkOutcomes(k) :
               /\ running' = [running EXCEPT ![k] = TRUE]
               /\ run' = [run EXCEPT ![r].pc = IF up THEN "init" ELSE "dead"]
               /\ Faults(TRUE, up)
    /\ UNCHANGED <<call, calc, store, batch, undoReq>>

\* ... from there to the ThreadPoolExecutor block: load the vocabulary and
\* the products (a loader that fails returns an empty list), leave when
\* there is nothing to process, otherwise publish the total and submit the
\* batches
RunLoad(r) ==
    /\ run[r].pc = "init"
    /\ LET k == run[r].kind
       IN  \E sok \in StoreOutcomes, up \in SinkOutcomes(k) :
           LET first == CASE ~sok -> <<>>
                          [] k = "renamer" -> get_products_from_firestore
                          [] k = "categorizer" -> load_products
                          [] OTHER -> Phase1Products
               second == IF sok /\ k = "categorizer_targeted"
                         THEN Phase2Products(run[r].include_others)
                         ELSE <<>>
               total == Len(first) + Len(second)
           IN  /\ Faults(sok, up)
               /\ IF total = 0 \/ ~up
                  THEN /\ EndRun(r, up, "False")
                       /\ UNCHANGED <<progress, batch>>
                  ELSE /\ progress' =
                              [progress EXCEPT ![k] = ZeroProgress(k, total)]
                       /\ run' = [run EXCEPT ![r].pc = "pool",
                                             ![r].phase2 = second]
                       /\ batch' = [batch EXCEPT ![r] = Tasks(first)]
                       /\ UNCHANGED running
    /\ UNCHANGED <<call, calc, undo_store, store, undoReq>>

\* list(executor.map(...)) reaches the result of a task that raised: the
\* exception leaves the iterator, which cancels the tasks no worker has
\* taken yet
RunCancel(r) ==
    /\ run[r].pc = "pool"
    /\ \E f \in DOMAIN batch[r] :
        /\ batch[r][f].pc = "raised"
        /\ \A q \in DOMAIN batch[r] : q < f => Finished(r, q)
    /\ \E b \in DOMAIN batch[r] : batch[r][b].pc = "queued"
    /\ batch' = [batch EXCEPT ![r] =
                   [b \in DOMAIN batch[r] |->
                       IF batch[r][b].pc = "queued"
                       THEN [batch[r][b] EXCEPT !.pc = "cancelled"]
                       ELSE batch[r][b]]]
    /\ UNCHANGED <<call, calc, running, progress, undo_store, store, run, undoReq, storeFaults, sinkFaults>>

\* The executor block is left (every task finished or cancelled).  An
\* exception of a task goes to the except clause; the targeted run opens
\* the pool of phase 2 when there is one and the flag is still set;
\* otherwise the result is logged and the flag reset.
RunJoin(r) ==
    /\ run[r].pc = "pool"
    /\ \A b \in DOMAIN batch[r] : Finished(r, b)
    /\ LET k == run[r].kind
           raised == \E b \in DOMAIN batch[r] : batch[r][b].pc = "raised"
       IN  \E up \in SinkOutcomes(k) :
           /\ Faults(TRUE, up)
           /\ IF /\ ~raised /\ up /\ k = "categorizer_targeted"
                 /\ run[r].phase = 1 /\ run[r].phase2 # <<>> /\ running[k]
              THEN /\ run' = [run EXCEPT ![r].phase = 2]
                   /\ batch' = [batch EXCEPT ![r] = Tasks(run[r].phase2)]
                   /\ UNCHANGED running
              ELSE /\ EndRun(r, up, IF raised THEN "False" ELSE "True")
                   /\ UNCHANGED batch
    /\ UNCHANGED <<call, calc, progress, undo_store, store, undoReq>>

\* ------------------------------------------------------------------------
\* Batch tasks: _process_batch, _cat_batch, _phase1_batch, _phase2_batch
\* ------------------------------------------------------------------------
\* progress[what] += 1; progress['processed'] += 1 (_tick, _tick_product)
Tick(p, what) == [p EXCEPT ![what] = @ + 1, !.processed = @ + 1]

\* the batch function returns or raises: only pc matters from here on
End(t, pc) ==
    [t EXCEPT !.pc = pc, !.j = 1, !.pending = NoPending,
              !.outcome = "none", !.late = FALSE]

\* the for loop over the items of the batch moves on
Advance(t) ==
    IF t.j < Len(t.items)
    THEN [t EXCEPT !.pc = "item", !.j = @ + 1, !.pending = NoPending]
    ELSE End(t, "done")

\* self._lock of the ProductCategorizerAgent: _cat_batch holds it from the
\* item's first line to its tick, so it is held while a categorizer task
\* stands between write and append
AgentLockHeld ==
    \E r \in Runs : /\ run[r].kind = "categorizer"
                    /\ \E b \in DOMAIN batch[r] : batch[r][b].pc = "append"

\* A pool worker takes the next task and enters the batch function: return
\* when the flag is down, otherwise publish the current product
BatchTake(r, b) ==
    /\ run[r].pc = "pool"
    /\ b \in DOMAIN batch[r]
    /\ batch[r][b].pc = "queued"
    /\ \A q \in DOMAIN batch[r] : q < b => batch[r][q].pc # "queued"
    /\ Cardinality(Active(r)) < max_workers
    /\ LET k == run[r].kind
           t == batch[r][b]
       IN  \E up \in SinkOutcomes(k) :
           /\ running[k] \/ up
           /\ Faults(TRUE, up)
           /\ batch' = [batch EXCEPT ![r][b] =
                  IF ~running[k] THEN End(t, "done")
                  ELSE IF up
                       THEN [t EXCEPT !.pc = "call",
                                      !.late = run[r].quota_seen]
                       ELSE End(t, "raised")]
    /\ UNCHANGED <<call, calc, running, progress, undo_store, store, run, undoReq>>

ClassifierOutcomes == {"ok", "quota", "error"}

\* The classifier call of the batch.  Renamer: get_improved_names_batch
\* raises on failure and _process_batch counts the whole batch as errors.
\* Categorizers: get_categories_batch and _should_assign_batch catch the
\* failure, log it and return a list without any result; when the sink
\* raises during those log lines the exception leaves the batch function.
\* _cat_batch looks at the flag once more before the call.
\* notified: emit_quota_exceeded was reached before the sink raised.
BatchCall(r, b) ==
    /\ batch[r][b].pc = "call"
    /\ LET k == run[r].kind
           t == batch[r][b]
           n == Len(t.items)
       IN  IF k = "categorizer" /\ ~running[k]
           THEN /\ batch' = [batch EXCEPT ![r][b] = End(t, "done")]
                /\ UNCHANGED <<progress, run, storeFaults, sinkFaults>>
           ELSE \E out \in ClassifierOutcomes, up \in SinkOutcomes(k),
                   notified \in BOOLEAN :
                /\ (out = "ok") => up
                /\ notified = (out = "quota" /\ (up \/ notified))
                /\ Faults(TRUE, up)
                /\ run' = [run EXCEPT
                       ![r].quota_seen = @ \/ (out = "quota"),
                       ![r].quota_events = IF notified THEN @ + 1 ELSE @,
                       ![r].handled = IF k = "renamer" /\ out # "ok"
                                      THEN @ + n ELSE @,
                       ![r].once = IF k = "renamer" /\ out # "ok"
                                   THEN @ \cup ItemIds(t) ELSE @,
                       ![r].again = IF k = "renamer" /\ out # "ok"
                                    THEN @ \cup (ItemIds(t) \cap run[r].once)
                                    ELSE @]
                /\ IF k = "renamer" /\ out # "ok"
                   THEN /\ progress' = [progress EXCEPT
                               ![k].errors = @ + n, ![k].processed = @ + n]
                        /\ batch' = [batch EXCEPT ![r][b] = End(t, "done")]
                   ELSE /\ UNCHANGED progress
                        /\ batch' = [batch EXCEPT ![r][b] =
                               IF up
                               THEN [t EXCEPT !.pc = "item", !.outcome = out]
                               ELSE End(t, "raised")]
    /\ UNCHANGED <<call, calc, running, undo_store, store, undoReq>>

\* update_product_in_firestore without its dry-run branch (lines 404-407)
update_product_in_firestore_no_dry_run(dry_run, wok) ==
    [write |-> wok, ok |-> dry_run \/ wok]

\* update_product_in_firestore(..., dry_run): what the call does when the
\* store answers the update with wok.  write: the document is updated (and
\* its record appended once the call gets the undo lock); ok: the value
\* returned.
update_product_in_firestore(dry_run, wok) ==
    [write |-> ~dry_run /\ wok, ok |-> dry_run \/ wok]

\* update_product_categories(..., dry_run, history_key): likewise
update_product_categories(dry_run, wok) ==
    [write |-> ~dry_run /\ wok, ok |-> dry_run \/ wok]

\* One item of a renamer batch (_process_batch): return when the flag is
\* down; format the reply; count the item as unchanged, or call
\* update_product_in_firestore and count what it returned.  After a
\* successful update the task stands before the append of the record.
ItemRenamer(r, b) ==
    /\ batch[r][b].pc = "item"
    /\ run[r].kind = "renamer"
    /\ LET k == run[r].kind
           t == batch[r][b]
           product == t.items[t.j]
       IN  IF ~running[k]
           THEN /\ batch' = [batch EXCEPT ![r][b] = End(t, "done")]
                /\ UNCHANGED <<progress, store, run, storeFaults>>
           ELSE \E reply \in ClassifierNames, wok \in StoreOutcomes :
                LET new_name == format_product_name(reply)
                    name_changed == new_name # product.name
                    needs_desc == product.description = <<>>
                    unchanged == ~name_changed /\ ~needs_desc
                    res == update_product_in_firestore(run[r].dry_run, wok)
                IN  /\ ~wok => (~unchanged /\ ~run[r].dry_run)
                    /\ run' = [run EXCEPT
                           ![r].handled = @ + 1,
                           ![r].once = @ \cup {product.id},
                           ![r].again = @ \cup ({product.id} \cap run[r].once)]
                    /\ storeFaults' =
                           IF wok THEN storeFaults ELSE storeFaults - 1
                    /\ IF ~unchanged /\ res.write
                       THEN /\ store' = [store EXCEPT
                                  ![product.id].name = new_name,
                                  ![product.id].description =
                                      IF needs_desc THEN new_name ELSE @]
                            /\ batch' = [batch EXCEPT ![r][b] =
                                  [t EXCEPT !.pc = "append", !.pending =
                                      [product_id |-> product.id,
                                       old_name |-> product.name,
                                       new_name |-> new_name]]]
                            /\ UNCHANGED progress
                       ELSE /\ progress' = [progress EXCEPT ![k] =
                                  Tick(@, IF unchanged THEN "unchanged"
                                          ELSE IF res.ok THEN "updated"
                                          ELSE "errors")]
                            /\ batch' = [batch EXCEPT ![r][b] = Advance(t)]
                            /\ UNCHANGED store
    /\ UNCHANGED <<call, calc, running, undo_store, undoReq, sinkFaults>>

\* the read before the write, taken as always answered
captured_old_data_read_only(rok, doc) == doc.cats

\* update_product_categories: old_data = {}; try: snap = doc_ref.get();
\* old_data = the four fields of the document; except Exception: pass.
\* The undo reads a missing field of old_data as the empty list.
captured_old_data(rok, doc) ==
    IF rok THEN doc.cats ELSE NoCategoryFields

\* where the sink raises during an item: nowhere, before the counters are
\* touched ("head": an item, result, dry-run or error log line), or after
\* the tick ("tail": the update_progress that follows it)
SinkFaultPoints(k) ==
    IF k = "renamer" \/ sinkFaults = 0 THEN {"none"}
    ELSE {"none", "head", "tail"}

\* One item of a categorizer batch (_cat_batch, _phase1_batch,
\* _phase2_batch).  answer is the parsed result of the item: a subcategory
\* id or "none"; there is none at all after a failed classifier call.
\* _cat_batch and _phase1_batch send an item without result to
\* Outros/Outros, _phase2_batch counts it as skipped.
ItemCategorizer(r, b) ==
    /\ batch[r][b].pc = "item"
    /\ run[r].kind # "renamer"
    /\ LET k == run[r].kind
           t == batch[r][b]
           product == t.items[t.j]
           phase2 == run[r].phase = 2
       IN  IF ~running[k]
           THEN /\ batch' = [batch EXCEPT ![r][b] = End(t, "done")]
                /\ UNCHANGED <<progress, store, run, storeFaults,
                               sinkFaults>>
           ELSE \E answer \in
                      IF t.outcome # "ok" THEN {"none"}
                      ELSE IF phase2
                           THEN {"none"} \cup
                                {s \in Subcategories :
                                    SubCategory[s] = target_category_id}
                           ELSE {"none"} \cup Subcategories,
                   rok \in StoreOutcomes, wok \in StoreOutcomes,
                   fault \in SinkFaultPoints(k) :
                LET skip == phase2 /\ answer = "none"
                    category_id ==
                        IF phase2 THEN target_category_id
                        ELSE IF answer = "none" THEN outros_cat_id
                        ELSE SubCategory[answer]
                    subcategory_id ==
                        IF answer = "none" THEN outros_sub_id ELSE answer
                    res == update_product_categories(run[r].dry_run, wok)
                    calls == ~skip /\ ~run[r].dry_run
                    written == ~skip /\ res.write /\ fault # "head"
                    ticks == fault # "head" /\ ~written
                    new_data == CategoryFields(category_id, subcategory_id)
                    old_data == captured_old_data(rok, store[product.id])
                IN  /\ ~wok => calls
                    /\ ~rok => (calls /\ wok /\ fault = "none")
                    /\ (fault = "tail") => ticks
                    /\ written => fault = "none"
                    /\ (k = "categorizer" \/ ticks) => ~AgentLockHeld
                    /\ Faults(rok /\ wok, fault = "none")
                    /\ run' = [run EXCEPT
                           ![r].handled =
                               IF written \/ ticks THEN @ + 1 ELSE @,
                           ![r].once =
                               IF written \/ ticks
                               THEN @ \cup {product.id} ELSE @,
                           ![r].again =
                               IF written \/ ticks
                               THEN @ \cup ({product.id} \cap run[r].once)
                               ELSE @]
                    /\ store' = IF written
                                THEN [store EXCEPT ![product.id].cats =
                                        new_data]
                                ELSE store
                    /\ progress' =
                          IF ticks
                          THEN [progress EXCEPT ![k] =
                                  Tick(@, IF skip THEN "skipped"
                                          ELSE IF res.ok THEN "updated"
                                          ELSE "errors")]
                          ELSE progress
                    /\ batch' = [batch EXCEPT ![r][b] =
                          IF written
                          THEN [t EXCEPT !.pc = "append", !.pending =
                                  [product_id |-> product.id,
                                   old_data |-> old_data,
                                   new_data |-> new_data]]
                          ELSE IF fault = "none" THEN Advance(t)
                          ELSE End(t, "raised")]
    /\ UNCHANGED <<call, calc, running, undo_store, undoReq>>

\* with _undo_lock: undo_store[key].append(record); return True; then the
\* caller's tick.  The categorizers' update_progress after the tick may
\* raise.
BatchAppend(r, b) ==
    /\ batch[r][b].pc = "append"
    /\ LET k == run[r].kind
           t == batch[r][b]
       IN  /\ (k = "categorizer_targeted") => ~AgentLockHeld
           /\ undo_store' = [undo_store EXCEPT ![k] = Append(@, t.pending)]
           /\ progress' = [progress EXCEPT ![k] = Tick(@, "updated")]
           /\ \E up \in SinkOutcomes(k) :
               /\ Faults(TRUE, up)
               /\ batch' = [batch EXCEPT ![r][b] =
                      IF up THEN Advance(t) ELSE End(t, "raised")]
    /\ UNCHANGED <<call, calc, running, store, run, undoReq>>

\* ------------------------------------------------------------------------
\* Undo handlers: renamer_undo, categorizer_undo, categorizer_targeted_undo
\* ------------------------------------------------------------------------
RunAlive(r) == run[r].pc \in {"spawned", "init", "pool"}

\* no thread of a run of kind k is left
Quiet(k) == \A r \in Runs : run[r].kind = k => ~RunAlive(r)

\* refuse while the flag is set; copy the list under the undo lock; answer
\* "nothing to undo" when the copy is empty
UndoBegin(k) ==
    /\ undoReq.pc = "idle"
    /\ ~running[k]
    /\ undoReq' = IF undo_store[k] = <<>> THEN NoUndo
                  ELSE [NoUndo EXCEPT !.pc = "restore", !.key = k,
                                      !.changes = undo_store[k],
                                      !.quiet = Quiet(k)]
    /\ UNCHANGED <<call, calc, running, progress, undo_store, store, run, batch, storeFaults, sinkFaults>>

\* the fields the undo of an entry writes back
restored(k, entry, doc) ==
    IF k = "renamer"
    THEN [doc EXCEPT !.name = entry.old_name]
    ELSE [doc EXCEPT !.cats = entry.old_data]

\* the loop without the try/except around the update of an entry: the
\* first update that raises ends the loop
UndoRestore_without_except ==
    /\ undoReq.pc = "restore"
    /\ LET entry == undoReq.changes[undoReq.i]
           last == undoReq.i = Len(undoReq.changes)
       IN  \E wok \in StoreOutcomes :
           /\ storeFaults' = IF wok THEN storeFaults ELSE storeFaults - 1
           /\ store' = IF wok
                       THEN [store EXCEPT ![entry.product_id] =
                               restored(undoReq.key, entry, @)]
                       ELSE store
           /\ undoReq' = [undoReq EXCEPT
                  !.pc = IF last \/ ~wok THEN "clear" ELSE "restore",
                  !.i = IF last \/ ~wok THEN 1 ELSE @ + 1,
                  !.reverted = IF wok THEN @ + 1 ELSE @,
                  !.errors = IF wok THEN @ ELSE @ + 1]
    /\ UNCHANGED <<call, calc, running, progress, undo_store, run, batch, sinkFaults>>

\* for entry in changes: doc_ref.update(old values), counted as reverted,
\* or as an error when the update raises
UndoRestore ==
    /\ undoReq.pc = "restore"
    /\ LET entry == undoReq.changes[undoReq.i]
           last == undoReq.i = Len(undoReq.changes)
       IN  \E wok \in StoreOutcomes :
           /\ storeFaults' = IF wok THEN storeFaults ELSE storeFaults - 1
           /\ store' = IF wok
                       THEN [store EXCEPT ![entry.product_id] =
                               restored(undoReq.key, entry, @)]
                       ELSE store
           /\ undoReq' = [undoReq EXCEPT
                  !.pc = IF last THEN "clear" ELSE "restore",
                  !.i = IF last THEN 1 ELSE @ + 1,
                  !.reverted = IF wok THEN @ + 1 ELSE @,
                  !.errors = IF wok THEN @ ELSE @ + 1]
    /\ UNCHANGED <<call, calc, running, progress, undo_store, run, batch, sinkFaults>>

\* with _undo_lock: undo_store[key].clear(); answer the two counts
UndoClear ==
    /\ undoReq.pc = "clear"
    /\ undo_store' = [undo_store EXCEPT ![undoReq.key] = <<>>]
    /\ undoReq' = [undoReq EXCEPT !.pc = "idle", !.key = NoUndo.key,
                                  !.changes = <<>>]
    /\ UNCHANGED <<call, calc, running, progress, store, run, batch, storeFaults, sinkFaults>>

\* ------------------------------------------------------------------------
\* Observers
\* ------------------------------------------------------------------------
\* handle_connect: a client connects.  For every kind whose flag is down
\* the progress dictionary is replaced by one of zeros, without any lock;
\* then the states are emitted to the client.
handle_connect ==
    /\ progress' = [k \in Kinds |->
                       IF running[k] THEN progress[k] ELSE ZeroProgress(k, 0)]
    /\ UNCHANGED <<call, calc, running, undo_store, store, run, batch, undoReq,
                   storeFaults, sinkFaults>>

\* ------------------------------------------------------------------------
\* The retry loop around one classifier request
\* ------------------------------------------------------------------------
max_retries == 5

\* What openai_client.chat.completions.create may raise.  message stands
\* for str(exc).lower() and names the word of it the code looks for, if
\* any; the text of an error whose code is insufficient_quota holds that
\* word.
ErrorTypes == {"RateLimitError", "APITimeoutError", "BadRequestError"}
ErrorCodes == {"rate_limit_exceeded", "insufficient_quota", "none"}
ErrorMessages == {"plain", "insufficient_quota", "billing", "image"}

Errors ==
    {e \in [type : ErrorTypes, code : ErrorCodes, message : ErrorMessages] :
        /\ e.code = "insufficient_quota" => e.message = "insufficient_quota"
        /\ e.type = "APITimeoutError" => (e.code = "none" /\ e.message = "plain")}

\* extensions._is_quota_error
is_quota_error(exc) ==
    IF exc.type # "RateLimitError" THEN FALSE
    ELSE IF exc.code = "rate_limit_exceeded" THEN FALSE
    ELSE exc.message \in {"insufficient_quota", "billing"}

\* 'image' in err_str or 'downloading' in err_str or '400' in err_str
image_related(exc) == exc.message = "image"

\* wait = 0.5 * (2 ** attempt), in milliseconds
backoff(attempt) == 500 * 2^attempt

\* a batch function reaches the request of get_improved_names_batch
\* (renamer, with or without images) or of _call_openai (categorizers)
CallStart(wrapper, has_images) ==
    /\ call.pc \in {"idle", "returned", "raised"}
    /\ call' = [NoCall EXCEPT !.pc = "try", !.wrapper = wrapper,
                              !.has_images = has_images]
    /\ UNCHANGED <<calc, running, progress, undo_store, store, run, batch,
                   undoReq,
                   storeFaults, sinkFaults>>

\* the request of this attempt is answered: break out of the loop
CallReturn ==
    /\ call.pc = "try"
    /\ call' = [call EXCEPT !.pc = "returned", !.created = @ + 1]
    /\ UNCHANGED <<calc, running, progress, undo_store, store, run, batch,
                   undoReq,
                   storeFaults, sinkFaults>>

\* the request of this attempt raises exc.  Quota: log, emit the alert,
\* raise.  Other rate limit: log the wait, sleep, raise after the last
\* attempt, otherwise go round.  Anything else: the renamer re-sends a
\* batch with images once as text when the error is about an image,
\* otherwise the error is raised.  The log lines of _call_openai raise when
\* the sink does; a loop left by continue after the last attempt reaches
\* the use of a response that was never assigned.
CallExcept(exc, quota) ==
    /\ call.pc = "try"
    /\ \E up \in SinkOutcomes(call.wrapper) :
        LET last == call.attempt = max_retries - 1
            throttle == ~quota /\ exc.type = "RateLimitError"
            retext == /\ ~quota /\ ~throttle /\ call.wrapper = "renamer"
                      /\ call.has_images /\ image_related(exc)
            goes_on == up /\ (throttle \/ retext) /\ ~last
        IN  /\ sinkFaults' = IF up THEN sinkFaults ELSE sinkFaults - 1
            /\ ~up => (quota \/ throttle)
            /\ call' = [call EXCEPT
                   !.pc = IF goes_on THEN "try" ELSE "raised",
                   !.attempt = IF goes_on THEN @ + 1 ELSE @,
                   !.created = @ + 1,
                   !.throttled = IF throttle THEN @ + 1 ELSE @,
                   !.waits = IF throttle /\ up
                             THEN Append(@, backoff(call.attempt)) ELSE @,
                   !.has_images = IF retext THEN FALSE ELSE @,
                   !.error = exc,
                   !.quota_events = IF quota /\ up THEN @ + 1 ELSE @,
                   !.raised = IF goes_on THEN "none"
                              ELSE IF ~up THEN "SinkError"
                              ELSE IF retext THEN "UnboundLocalError"
                              ELSE exc.type]
    /\ UNCHANGED <<calc, running, progress, undo_store, store, run, batch,
                   undoReq,
                   storeFaults>>

\* the loop without its quota branches
CallError_quota_retried(exc) == CallExcept(exc, FALSE)

CallError(exc) == CallExcept(exc, is_quota_error(exc))

\* ------------------------------------------------------------------------
\* Specification
\* ------------------------------------------------------------------------
Next ==
    \/ \E k \in Kinds, dry_run \in BOOLEAN, include_others \in BOOLEAN :
          /\ include_others => k = "categorizer_targeted"
          /\ Start(k, dry_run, include_others)
    \/ \E k \in Kinds : Stop(k)
    \/ \E r \in Runs : RunInit(r)
    \/ \E r \in Runs : RunLoad(r)
    \/ \E r \in Runs : RunCancel(r)
    \/ \E r \in Runs : RunJoin(r)
    \/ \E r \in Runs : \E b \in DOMAIN batch[r] : BatchTake(r, b)
    \/ \E r \in Runs : \E b \in DOMAIN batch[r] : BatchCall(r, b)
    \/ \E r \in Runs : \E b \in DOMAIN batch[r] : ItemRenamer(r, b)
    \/ \E r \in Runs : \E b \in DOMAIN batch[r] : ItemCategorizer(r, b)
    \/ \E r \in Runs : \E b \in DOMAIN batch[r] : BatchAppend(r, b)
    \/ \E k \in Kinds : UndoBegin(k)
    \/ UndoRestore
    \/ UndoClear

Spec == Init /\ [][Next]_vars

\* Two start requests: the second one while the first run is spawned,
\* working, stopped or over.
InitTwo ==
    /\ running = [k \in Kinds |-> FALSE]
    /\ progress = [k \in Kinds |-> InitialProgress(k)]
    /\ undo_store = [k \in Kinds |-> <<>>]
    /\ store = InitialStore(NumProductsTwo)
    /\ run = [r \in 1..MaxRunsTwo |-> NoRun]
    /\ batch = [r \in 1..MaxRunsTwo |-> <<>>]
    /\ undoReq = NoUndo
    /\ call = NoCall
    /\ calc = NoCalc
    /\ storeFaults = 0
    /\ sinkFaults = 0

NextTwo ==
    \/ \E k \in Kinds, dry_run \in BOOLEAN, include_others \in BOOLEAN :
          /\ include_others => k = "categorizer_targeted"
          /\ Start(k, dry_run, include_others)
    \/ \E k \in Kinds : Stop(k)
    \/ \E r \in Runs : RunInit(r)
    \/ \E r \in Runs : RunLoad(r)
    \/ \E r \in Runs : RunJoin(r)
    \/ \E r \in Runs : \E b \in DOMAIN batch[r] : BatchTake(r, b)
    \/ \E r \in Runs : \E b \in DOMAIN batch[r] : BatchCall(r, b)
    \/ \E r \in Runs : \E b \in DOMAIN batch[r] : ItemRenamer(r, b)
    \/ \E r \in Runs : \E b \in DOMAIN batch[r] : ItemCategorizer(r, b)
    \/ \E r \in Runs : \E b \in DOMAIN batch[r] : BatchAppend(r, b)

SpecTwo == InitTwo /\ [][NextTwo]_vars

\* A run nobody stops: the routes of Next without the stop routes.  The
\* run thread and the workers of its pool are threads of the process and
\* go on whenever they can; requests arrive or not.
ThreadSteps ==
    \/ \E r \in Runs : RunInit(r)
    \/ \E r \in Runs : RunLoad(r)
    \/ \E r \in Runs : RunCancel(r)
    \/ \E r \in Runs : RunJoin(r)
    \/ \E r \in Runs : \E b \in DOMAIN batch[r] : BatchTake(r, b)
    \/ \E r \in Runs : \E b \in DOMAIN batch[r] : BatchCall(r, b)
    \/ \E r \in Runs : \E b \in DOMAIN batch[r] : ItemRenamer(r, b)
    \/ \E r \in Runs : \E b \in DOMAIN batch[r] : ItemCategorizer(r, b)
    \/ \E r \in Runs : \E b \in DOMAIN batch[r] : BatchAppend(r, b)

NextLive ==
    \/ \E k \in Kinds, dry_run \in BOOLEAN, include_others \in BOOLEAN :
          /\ include_others => k = "categorizer_targeted"
          /\ Start(k, dry_run, include_others)
    \/ ThreadSteps
    \/ \E k \in Kinds : UndoBegin(k)
    \/ UndoRestore
    \/ UndoClear

SpecLive == Init /\ [][NextLive]_vars /\ WF_vars(ThreadSteps)

\* The routes and threads of Next together with connecting clients.
NextConnect ==
    \/ Next
    \/ handle_connect

SpecConnect == Init /\ [][NextConnect]_vars

\* The state after construction with the function call c about to be made.
InitCalc(c) ==
    /\ running = [k \in Kinds |-> FALSE]
    /\ progress = [k \in Kinds |-> InitialProgress(k)]
    /\ undo_store = [k \in Kinds |-> <<>>]
    /\ store = InitialStore(NumProducts)
    /\ run = [r \in 1..MaxRuns |-> NoRun]
    /\ batch = [r \in 1..MaxRuns |-> <<>>]
    /\ undoReq = NoUndo
    /\ call = NoCall
    /\ calc = c
    /\ storeFaults = MaxStoreFaults
    /\ sinkFaults = MaxSinkFaults

\* The split of a product list into the tasks of the pool, for every list
\* of up to MaxItems products.
ItemLists ==
    UNION {[1..n -> [id : 1..NumProducts]] : n \in 0..MaxItems}

InitBatch ==
    \E products \in ItemLists :
        InitCalc([op |-> "batches", products |-> products, done |-> FALSE,
                  tasks |-> <<>>])

\* batches = [...]; executor.map(f, ((i * BATCH_SIZE, b) for ...))
SplitBatches ==
    /\ calc.op = "batches"
    /\ ~calc.done
    /\ calc' = [calc EXCEPT !.done = TRUE, !.tasks = Tasks(calc.products)]
    /\ UNCHANGED <<running, progress, undo_store, store, run, batch,
                   undoReq, call, storeFaults, sinkFaults>>

NextBatch == SplitBatches

SpecBatch == InitBatch /\ [][NextBatch]_vars

\* ------------------------------------------------------------------------
\* The resolver of a returned identifier: _best_match
\* ------------------------------------------------------------------------
\* Identifiers and tokens are strings, written as sequences of characters.
Alphabet == {"a", "A", "b"}

Strings == UNION {[1..n -> Alphabet] : n \in 0..MaxIdLen}

\* str.lower()
lower(str) == [i \in DOMAIN str |-> IF str[i] = "A" THEN "a" ELSE str[i]]

\* x in y, for strings
contains(y, x) ==
    \E i \in 0..(Len(y) - Len(x)) : SubSeq(y, i + 1, i + Len(x)) = x

\* None; no identifier is empty
None == <<>>

\* the id of the first item of valid_items, in list order, among those at
\* the indexes hits (the indexes where the test of the loop holds); None
\* when the loop ends without a return
first_id(valid_items, hits) ==
    IF hits = {} THEN None
    ELSE valid_items[CHOOSE i \in hits : \A j \in hits : i <= j].id

\* the indexes of valid_items whose id equals lo when lowered
same_ids(valid_items, lo) ==
    {i \in DOMAIN valid_items : lower(valid_items[i].id) = lo}

\* the indexes of valid_items whose id is long enough and contains lo or
\* is contained in it, both lowered
partial_ids(valid_items, lo) ==
    {i \in DOMAIN valid_items :
        /\ Len(valid_items[i].id) >= min_partial_len
        /\ \/ contains(lo, lower(valid_items[i].id))
           \/ contains(lower(valid_items[i].id), lo)}

\* the resolver with a last step that takes the first candidate
best_match_first_candidate(returned_id, valid_items) ==
    IF returned_id = <<>> \/ valid_items = <<>> THEN None
    ELSE valid_items[1].id

\* the resolver with one loop that tests both comparisons on each item
best_match_single_loop(returned_id, valid_items) ==
    IF returned_id = <<>> \/ valid_items = <<>> THEN None
    ELSE LET lo == lower(returned_id)
         IN  IF \E i \in DOMAIN valid_items : valid_items[i].id = returned_id
             THEN returned_id
             ELSE first_id(valid_items, same_ids(valid_items, lo)
                                          \cup partial_ids(valid_items, lo))

\* _best_match(returned_id, valid_items)
best_match(returned_id, valid_items) ==
    IF returned_id = <<>> \/ valid_items = <<>> THEN None
    ELSE LET lo == lower(returned_id)
             same == same_ids(valid_items, lo)
             partial == partial_ids(valid_items, lo)
         IN  IF \E i \in DOMAIN valid_items : valid_items[i].id = returned_id
             THEN returned_id
             ELSE IF first_id(valid_items, same) # None
                  THEN first_id(valid_items, same)
                  ELSE first_id(valid_items, partial)

\* the candidate lists: up to MaxCandidates items with non-empty ids
CandidateLists ==
    UNION {[1..n -> [id : Strings \ {<<>>}]] : n \in 0..MaxCandidates}

InitMatch ==
    \E returned_id \in Strings, valid_items \in CandidateLists :
        InitCalc([op |-> "best_match", returned_id |-> returned_id,
                  valid_items |-> valid_items, done |-> FALSE,
                  result |-> None])

Resolve ==
    /\ calc.op = "best_match"
    /\ ~calc.done
    /\ calc' = [calc EXCEPT !.done = TRUE,
                   !.result = best_match(calc.returned_id, calc.valid_items)]
    /\ UNCHANGED <<running, progress, undo_store, store, run, batch,
                   undoReq, call, storeFaults, sinkFaults>>

NextMatch == Resolve

SpecMatch == InitMatch /\ [][NextMatch]_vars

\* ------------------------------------------------------------------------
\* The batch classification of the categorizer: get_categories_batch
\* ------------------------------------------------------------------------
\* The text of a reply is a sequence of pieces: a Markdown code fence, an
\* opening or closing brace, a member "n": "tok" of a JSON object, a line
\* "n. tok", or a line that holds only tok.
Fence == [t |-> "fence", n |-> 0, tok |-> <<>>]
LB == [t |-> "lb", n |-> 0, tok |-> <<>>]
RB == [t |-> "rb", n |-> 0, tok |-> <<>>]
Member(n, tok) == [t |-> "member", n |-> n, tok |-> tok]
Numbered(n, tok) == [t |-> "numbered", n |-> n, tok |-> tok]
Plain(tok) == [t |-> "plain", n |-> 0, tok |-> tok]

\* the subcategories given to get_categories_batch
reply_subcategories ==
    <<[id |-> <<"a", "b">>, categoryId |-> <<"c", "1">>],
      [id |-> <<"b">>, categoryId |-> <<"c", "2">>]>>

NoneNone == [category_id |-> None, subcategory_id |-> None]

\* the resolution that falls back on the first subcategory
resolve_sub_or_first(sub_id_raw) ==
    LET sub_id == best_match_first_candidate(sub_id_raw, reply_subcategories)
        sub == CHOOSE x \in {reply_subcategories[i] :
                                i \in DOMAIN reply_subcategories} :
                   x.id = sub_id
    IN  IF sub_id = None THEN NoneNone
        ELSE [category_id |-> sub.categoryId, subcategory_id |-> sub_id]

\* _resolve_sub(sub_id_raw); the tokens hold neither '|' nor blanks
resolve_sub(sub_id_raw) ==
    LET sub_id == best_match(sub_id_raw, reply_subcategories)
        sub == CHOOSE x \in {reply_subcategories[i] :
                                i \in DOMAIN reply_subcategories} :
                   x.id = sub_id
    IN  IF sub_id = None THEN NoneNone
        ELSE [category_id |-> sub.categoryId, subcategory_id |-> sub_id]

\* the last of the indexes hits (those whose piece passes the test), 0
\* when there is none
last_index(hits) ==
    IF hits = {} THEN 0
    ELSE CHOOSE i \in hits : \A j \in hits : j <= i

\* The text of a reply is a sequence of pieces, one to a line: a code
\* fence, "{", "}", a member '"n": "tok"' of a JSON object, a line
\* "n. tok", a line "tok".  The n of a member or of a line is what stands
\* in the place of the number: an integer, or NotANumber for anything
\* int() refuses.
NotANumber == -9

\* str.isdigit() of the text before the dot: digits only, so no sign
isdigit(n) == n # NotANumber /\ n >= 0

\* the text of a line as the sequential branch hands it to _resolve_sub;
\* "." stands for the characters of the line that are no part of its token
line_text(x) ==
    CASE x.t = "plain" -> x.tok
      [] x.t = "numbered" -> <<".">> \o x.tok
      [] x.t = "member" -> <<".">> \o x.tok \o <<".">>
      [] OTHER -> <<".">>

\* re.sub(r'```[a-z]*\n?', '', text)
without_fences(raw_text) ==
    LET NotFence(x) == x.t # "fence"
    IN  SelectSeq(raw_text, NotFence)

\* re.search(r'\{[^{}]+\}', text, re.DOTALL): the positions of the first
\* "{" that is followed by a "}" with no brace between them, <<0, 0>> when
\* there is none
json_match(text) ==
    LET opens == {i \in DOMAIN text :
                     /\ text[i].t = "lb"
                     /\ \E j \in DOMAIN text :
                           /\ j > i /\ text[j].t = "rb"
                           /\ \A m \in (i + 1)..(j - 1) :
                                 text[m].t \notin {"lb", "rb"}}
        open == CHOOSE i \in opens : \A j \in opens : i <= j
        close == CHOOSE j \in DOMAIN text :
                    /\ j > open /\ text[j].t = "rb"
                    /\ \A m \in (open + 1)..(j - 1) : text[m].t # "rb"
    IN  IF opens = {} THEN <<0, 0>> ELSE <<open, close>>

\* what stands between the braces of the match
json_body(text) ==
    SubSeq(text, json_match(text)[1] + 1, json_match(text)[2] - 1)

\* json.loads(json_match.group()) returns: the match holds members only
json_decodes(text) ==
    /\ json_match(text) # <<0, 0>>
    /\ \A m \in DOMAIN json_body(text) : json_body(text)[m].t = "member"

\* any(line[:line.index('.')].strip().isdigit() for line in lines if '.' in line)
has_numbered(lines) ==
    \E i \in DOMAIN lines : lines[i].t = "numbered" /\ isdigit(lines[i].n)

all_none(results) == \A i \in DOMAIN results : results[i] = NoneNone

\* 1) for key, val in mapping.items(): the slot of each key that is a
\* number of the batch takes the resolution of its value, when there is
\* one (json.loads keeps the last value of a repeated key)
json_fill(text, count) ==
    LET mapping == json_body(text)
    IN  [slot \in 1..count |->
            LET at == last_index({i \in DOMAIN mapping :
                                     mapping[i].n = slot})
            IN  IF at = 0 THEN NoneNone
                ELSE resolve_sub(mapping[at].tok)]

\* 2) for line in lines: slot n takes the resolution of the token of each
\* line "n. tok" that has one; other lines are passed over
numbered_fill(lines, count) ==
    [slot \in 1..count |->
        LET at == last_index({i \in DOMAIN lines :
                        /\ lines[i].t = "numbered"
                        /\ lines[i].n = slot
                        /\ resolve_sub(lines[i].tok) # NoneNone})
        IN  IF at = 0 THEN NoneNone
            ELSE resolve_sub(lines[at].tok)]

\* 3) for i, line in enumerate(lines): slot i takes the resolution of line
\* i, whatever the line is
sequential_fill(lines, count) ==
    [slot \in 1..count |->
        IF slot <= Len(lines)
        THEN resolve_sub(line_text(lines[slot])) ELSE NoneNone]

\* the cascade that goes on to the next strategy when one filled no slot
parse_strategy_first_filling(text, count) ==
    IF json_decodes(text) /\ ~all_none(json_fill(text, count)) THEN "json"
    ELSE IF has_numbered(text) /\ ~all_none(numbered_fill(text, count))
    THEN "numbered"
    ELSE "sequential"

\* the strategy _parse_batch_raw follows for a text: the JSON object when
\* one is found and decodes, else the numbered lines when a line has a
\* number before its dot, else the lines in sequence
parse_strategy(text, count) ==
    IF json_decodes(text) THEN "json"
    ELSE IF has_numbered(text) THEN "numbered"
    ELSE "sequential"

fill(text, count, strategy) ==
    CASE strategy = "json" -> json_fill(text, count)
      [] strategy = "numbered" -> numbered_fill(text, count)
      [] OTHER -> sequential_fill(text, count)

\* the parse without its numbered-line branch: lines are taken in sequence
parse_batch_raw_sequential(raw_text, count) ==
    LET text == without_fences(raw_text)
    IN  fill(text, count,
             IF json_decodes(text) THEN "json" ELSE "sequential")

\* _parse_batch_raw(raw_text) for a batch of count names
parse_batch_raw(raw_text, count) ==
    LET text == without_fences(raw_text)
    IN  fill(text, count, parse_strategy(text, count))

\* Any text of up to MaxPieces lines.  The number of a member or line is
\* a number of the batch, 0, a negative number, a number beyond the batch
\* or no number; its token is an id of the vocabulary or a word that
\* resolves to none.
Indexes == {NotANumber} \cup (-1..(NumNames + 1))

ParseTokens == {<<"a", "b">>, <<"a", "a">>}

Pieces ==
    {LB, RB}
      \cup {Member(n, tok) : n \in Indexes, tok \in ParseTokens}
      \cup {Numbered(n, tok) : n \in Indexes, tok \in ParseTokens}
      \cup {Plain(tok) : tok \in ParseTokens}

RawTexts == UNION {[1..n -> Pieces] : n \in 0..MaxPieces}

InitParse ==
    \E raw_text \in RawTexts :
        InitCalc([op |-> "parse_batch_raw", pc |-> "raw", raw |-> raw_text,
                  results |-> [i \in 1..NumNames |-> NoneNone]])

\* results = _parse_batch_raw(raw)
ParseRaw ==
    /\ calc.op = "parse_batch_raw"
    /\ calc.pc = "raw"
    /\ calc' = [calc EXCEPT
           !.pc = "parsed",
           !.results = parse_batch_raw(calc.raw, NumNames)]
    /\ UNCHANGED <<running, progress, undo_store, store, run, batch,
                   undoReq, call, storeFaults, sinkFaults>>

NextParse == ParseRaw

SpecParse == InitParse /\ [][NextParse]_vars

\* The replies of the classifier.  asg lists pairs <<index, token>> with
\* distinct indices, 1-based, one of them possibly beyond the batch; form
\* says how the reply writes them: as a JSON object, as numbered lines, or
\* as bare lines of tokens in the order of the products; fenced says that
\* the reply is wrapped in a Markdown code fence.
ReplyTokens == UNION {[1..n -> Alphabet] : n \in 0..MaxTokenLen}

Assignments ==
    {a \in UNION {[1..n -> (1..(NumNames + 1)) \X ReplyTokens] :
                     n \in 0..NumNames} :
        \A i, j \in DOMAIN a : i # j => a[i][1] # a[j][1]}

Replies ==
    {r \in [form : {"json", "lines", "bare"}, fenced : BOOLEAN,
            asg : Assignments] :
        /\ r.form = "json" => r.asg # <<>>
        /\ r.form = "bare" => \A i \in DOMAIN r.asg : r.asg[i][1] = i}

NoReply == [form |-> "none", fenced |-> FALSE, asg |-> <<>>]

\* the text of a reply
reply_text(r) ==
    LET body == CASE r.form = "json" ->
                       <<LB>> \o [i \in DOMAIN r.asg |->
                                    Member(r.asg[i][1], r.asg[i][2])]
                              \o <<RB>>
                  [] r.form = "lines" ->
                       [i \in DOMAIN r.asg |->
                           Numbered(r.asg[i][1], r.asg[i][2])]
                  [] OTHER ->
                       [i \in DOMAIN r.asg |-> Plain(r.asg[i][2])]
    IN  IF r.fenced THEN <<Fence>> \o body \o <<Fence>> ELSE body

\* A call of get_categories_batch.  pc: "call" (before the first request),
\* "text" (before the request without images that follows an image
\* error), "parse" (a reply is held, before _parse_batch_raw), "parsed"
\* (before the test of the results), "retry" (before the request with the
\* reinforced prompt), "returned", "raised".  requests counts the requests
\* sent, retries those with the reinforced prompt; first says what the
\* parse of the first reply gave: "all_none", "some", or "none" before it.
NoBatchCall ==
    [op |-> "get_categories_batch", pc |-> "call", has_images |-> FALSE,
     requests |-> 0, retries |-> 0, first |-> "none", reply |-> NoReply,
     raw |-> <<>>, results |-> [i \in 1..NumNames |-> NoneNone]]

InitReply ==
    \E has_images \in BOOLEAN :
        InitCalc([NoBatchCall EXCEPT !.has_images = has_images])

\* _call_openai returns the text of a reply
ReplyArrives(r) ==
    /\ calc.op = "get_categories_batch"
    /\ calc.pc \in {"call", "text", "retry"}
    /\ calc' = [calc EXCEPT !.pc = "parse",
                            !.requests = @ + 1,
                            !.retries = IF calc.pc = "retry" THEN @ + 1 ELSE @,
                            !.reply = r,
                            !.raw = reply_text(r)]
    /\ UNCHANGED <<running, progress, undo_store, store, run, batch,
                   undoReq, call, storeFaults, sinkFaults>>

\* _call_openai raises.  The first request of a batch with images is
\* followed by one without them when the error is about an image; any
\* other failure is logged and the results held so far are returned.  The
\* log lines raise when the sink does.
ReplyFails(about_image) ==
    /\ calc.op = "get_categories_batch"
    /\ calc.pc \in {"call", "text", "retry"}
    /\ \E up \in SinkOutcomes("categorizer") :
          /\ sinkFaults' = IF up THEN sinkFaults ELSE sinkFaults - 1
          /\ calc' = [calc EXCEPT
                 !.requests = @ + 1,
                 !.retries = IF calc.pc = "retry" THEN @ + 1 ELSE @,
                 !.pc = IF ~up THEN "raised"
                        ELSE IF calc.pc = "call" /\ calc.has_images
                                /\ about_image
                             THEN "text" ELSE "returned"]
    /\ UNCHANGED <<running, progress, undo_store, store, run, batch,
                   undoReq, call, storeFaults>>

\* results = _parse_batch_raw(raw)
ParseReply ==
    /\ calc.op = "get_categories_batch"
    /\ calc.pc = "parse"
    /\ calc' = [calc EXCEPT
           !.pc = "parsed",
           !.results = parse_batch_raw(calc.raw, NumNames)]
    /\ UNCHANGED <<running, progress, undo_store, store, run, batch,
                   undoReq, call, storeFaults, sinkFaults>>

\* if all(r == (None, None) for r in results): log the reply and send the
\* batch once more with the reinforced prompt; after the retry only log.
\* Otherwise return the results.
TestResults ==
    /\ calc.op = "get_categories_batch"
    /\ calc.pc = "parsed"
    /\ LET nulls == all_none(calc.results)
           retried == calc.retries > 0
       IN  \E up \in SinkOutcomes("categorizer") :
           /\ ~up => nulls
           /\ sinkFaults' = IF up THEN sinkFaults ELSE sinkFaults - 1
           /\ calc' = [calc EXCEPT
                  !.pc = IF ~up THEN "raised"
                         ELSE IF nulls /\ ~retried THEN "retry"
                         ELSE "returned",
                  !.first = IF retried THEN @
                            ELSE IF nulls THEN "all_none" ELSE "some",
                  !.reply = NoReply,
                  !.raw = <<>>]
    /\ UNCHANGED <<running, progress, undo_store, store, run, batch,
                   undoReq, call, storeFaults>>

NextReply ==
    \/ \E r \in Replies : ReplyArrives(r)
    \/ \E about_image \in BOOLEAN : ReplyFails(about_image)
    \/ ParseReply
    \/ TestResults

SpecReply == InitReply /\ [][NextReply]_vars

\* ------------------------------------------------------------------------
\* The log buffer of a run: log_message
\* ------------------------------------------------------------------------
\* log_message(message, level): append the entry and keep the last
\* log_limit entries of the buffer
log_message(logs, log_entry) ==
    LET appended == Append(logs, log_entry)
    IN  IF Len(appended) > log_limit
        THEN SubSeq(appended, Len(appended) - log_limit + 1, Len(appended))
        ELSE appended

\* the entries a run writes: its opening line, for each item the line that
\* names it and the line that tells what was done with it, and the lines
\* of the result
Entry(line, item, outcome) ==
    [line |-> line, item |-> item, outcome |-> outcome]

ItemOutcomes == {"updated", "unchanged", "error"}

\* A run seen from its log: total items, processed of them handled so far.
InitLog ==
    \E total \in 0..MaxItems :
        InitCalc([op |-> "log", pc |-> "start", total |-> total,
                  processed |-> 0, logs |-> <<>>])

\* run_automation: logs = []; "Iniciando ..."
LogStart ==
    /\ calc.op = "log"
    /\ calc.pc = "start"
    /\ calc' = [calc EXCEPT
           !.pc = "items",
           !.logs = log_message(<<>>, Entry("start", 0, "none"))]
    /\ UNCHANGED <<running, progress, undo_store, store, run, batch,
                   undoReq, call, storeFaults, sinkFaults>>

\* _process_batch, one item: "[i/total] name", then the line of its outcome
LogItem(outcome) ==
    /\ calc.op = "log"
    /\ calc.pc = "items"
    /\ calc.processed < calc.total
    /\ LET i == calc.processed + 1
       IN  calc' = [calc EXCEPT
               !.processed = i,
               !.logs = log_message(
                            log_message(@, Entry("item", i, "none")),
                            Entry("outcome", i, outcome))]
    /\ UNCHANGED <<running, progress, undo_store, store, run, batch,
                   undoReq, call, storeFaults, sinkFaults>>

\* run_automation after the pool: "=== RESULTADO ===", the counts, the cost
LogResult ==
    /\ calc.op = "log"
    /\ calc.pc = "items"
    /\ calc.processed = calc.total
    /\ calc' = [calc EXCEPT
           !.pc = "ended",
           !.logs = log_message(
                        log_message(
                            log_message(@, Entry("result", 0, "none")),
                            Entry("counts", 0, "none")),
                        Entry("cost", 0, "none"))]
    /\ UNCHANGED <<running, progress, undo_store, store, run, batch,
                   undoReq, call, storeFaults, sinkFaults>>

NextLog ==
    \/ LogStart
    \/ \E outcome \in ItemOutcomes : LogItem(outcome)
    \/ LogResult

SpecLog == InitLog /\ [][NextLog]_vars

\* ------------------------------------------------------------------------
\* Token accounting: tokens_used of the objects that run the kinds
\* ------------------------------------------------------------------------
\* init_all builds one FirestoreProductAutomator and one
\* ProductCategorizerAgent; the categorizer and the targeted categorizer
\* are both run by the latter
Agent(k) == IF k = "renamer" THEN "automator" ELSE "categorizer"

Agents == {"automator", "categorizer"}

\* tokens_used: self.tokens_used of each object; running: the flags;
\* shown: progress['tokens_used'] of each kind.  A classifier reply counts
\* for one token.  estimated_cost is kept the same way, line by line.
InitTokens ==
    InitCalc([op |-> "tokens",
              tokens_used |-> [a \in Agents |-> 0],
              running |-> [k \in Kinds |-> FALSE],
              shown |-> [k \in Kinds |-> 0]])

\* the first lines of a run function: self.tokens_used = 0, the flag, the
\* progress dictionary of zeros
TokensRunInit(k) ==
    /\ calc.op = "tokens"
    /\ ~calc.running[k]
    /\ calc' = [calc EXCEPT !.tokens_used[Agent(k)] = 0,
                            !.running[k] = TRUE,
                            !.shown[k] = 0]
    /\ UNCHANGED <<running, progress, undo_store, store, run, batch,
                   undoReq, call, storeFaults, sinkFaults>>

\* a classifier reply with usage: with self._lock: self.tokens_used += ...
TokensCall(k) ==
    /\ calc.op = "tokens"
    /\ calc.running[k]
    /\ calc.tokens_used[Agent(k)] < MaxTokens
    /\ calc' = [calc EXCEPT !.tokens_used[Agent(k)] = @ + 1]
    /\ UNCHANGED <<running, progress, undo_store, store, run, batch,
                   undoReq, call, storeFaults, sinkFaults>>

\* the tick of an item: progress['tokens_used'] = self.tokens_used
TokensTick(k) ==
    /\ calc.op = "tokens"
    /\ calc.running[k]
    /\ calc' = [calc EXCEPT !.shown[k] = calc.tokens_used[Agent(k)]]
    /\ UNCHANGED <<running, progress, undo_store, store, run, batch,
                   undoReq, call, storeFaults, sinkFaults>>

\* the run function returns, or the stop route lowers the flag and the
\* workers return
TokensRunEnd(k) ==
    /\ calc.op = "tokens"
    /\ calc.running[k]
    /\ calc' = [calc EXCEPT !.running[k] = FALSE]
    /\ UNCHANGED <<running, progress, undo_store, store, run, batch,
                   undoReq, call, storeFaults, sinkFaults>>

NextTokens ==
    \/ \E k \in Kinds : TokensRunInit(k)
    \/ \E k \in Kinds : TokensCall(k)
    \/ \E k \in Kinds : TokensTick(k)
    \/ \E k \in Kinds : TokensRunEnd(k)

SpecTokens == InitTokens /\ [][NextTokens]_vars

\* ------------------------------------------------------------------------
\* Locks: self._lock of the two objects and _undo_lock
\* ------------------------------------------------------------------------
\* threading.Lock objects: "agent" is ProductCategorizerAgent._lock,
\* "automator" FirestoreProductAutomator._lock, "undo" utils._undo_lock.
\* None of them is reentrant.
Locks == {"agent", "automator", "undo"}

\* the threads that take locks: pool workers of the three kinds (two of
\* the categorizer), the undo request and the requests that read the list
Threads == {"cat_worker_1", "cat_worker_2", "targeted_worker",
            "renamer_worker", "undo_request", "info_request"}

Acq(l) == <<"acquire", l>>
Rel(l) == <<"release", l>>

\* the targeted worker with its tick inside update_product_categories'
\* undo-lock block
LockProgram_tick_under_undo_lock(t) ==
    CASE t \in {"cat_worker_1", "cat_worker_2"} ->
            <<Acq("agent"), Rel("agent"),
              Acq("agent"), Acq("undo"), Rel("undo"), Rel("agent")>>
      [] t = "targeted_worker" ->
            <<Acq("agent"), Rel("agent"),
              Acq("undo"), Acq("agent"), Rel("agent"), Rel("undo")>>
      [] t = "renamer_worker" ->
            <<Acq("automator"), Rel("automator"),
              Acq("undo"), Rel("undo"),
              Acq("automator"), Rel("automator")>>
      [] t = "undo_request" ->
            <<Acq("undo"), Rel("undo"), Acq("undo"), Rel("undo")>>
      [] OTHER ->
            <<Acq("undo"), Rel("undo")>>

\* What a thread does with the locks for one item or one request, in
\* program order.
\* _cat_batch: the usage count of _call_openai under self._lock; then the
\* item under self._lock, inside it update_product_categories with its
\* append under _undo_lock.
\* _phase1_batch, _phase2_batch: the usage count; update_product_categories
\* outside any lock; then the tick under self._lock.
\* _process_batch: the usage count of get_improved_names_batch;
\* update_product_in_firestore with its append; the tick.
\* renamer_undo, _undo_categorizer_changes: the copy, then the clear.
\* the undo-info and report routes: one read of the list.
LockProgram(t) ==
    CASE t \in {"cat_worker_1", "cat_worker_2"} ->
            <<Acq("agent"), Rel("agent"),
              Acq("agent"), Acq("undo"), Rel("undo"), Rel("agent")>>
      [] t = "targeted_worker" ->
            <<Acq("agent"), Rel("agent"),
              Acq("undo"), Rel("undo"),
              Acq("agent"), Rel("agent")>>
      [] t = "renamer_worker" ->
            <<Acq("automator"), Rel("automator"),
              Acq("undo"), Rel("undo"),
              Acq("automator"), Rel("automator")>>
      [] t = "undo_request" ->
            <<Acq("undo"), Rel("undo"), Acq("undo"), Rel("undo")>>
      [] OTHER ->
            <<Acq("undo"), Rel("undo")>>

\* at: the index in its program of the statement a thread executes next;
\* held: the locks each thread holds
InitLocks ==
    InitCalc([op |-> "locks",
              at |-> [t \in Threads |-> 1],
              held |-> [t \in Threads |-> {}]])

NextOp(t) == LockProgram(t)[calc.at[t]]

\* a lock somebody holds cannot be acquired, by its holder neither
Free(l) == \A t \in Threads : l \notin calc.held[t]

Blocked(t) == NextOp(t)[1] = "acquire" /\ ~Free(NextOp(t)[2])

\* after its last statement a thread begins the next item or request
LockStep(t) ==
    /\ calc.op = "locks"
    /\ ~Blocked(t)
    /\ LET op == NextOp(t)
       IN  calc' = [calc EXCEPT
               !.at[t] = IF @ = Len(LockProgram(t)) THEN 1 ELSE @ + 1,
               !.held[t] = IF op[1] = "acquire" THEN @ \cup {op[2]}
                           ELSE @ \ {op[2]}]
    /\ UNCHANGED <<running, progress, undo_store, store, run, batch,
                   undoReq, call, storeFaults, sinkFaults>>

NextLocks == \E t \in Threads : LockStep(t)

SpecLocks == InitLocks /\ [][NextLocks]_vars

\* One classifier call after another, each answered attempt by attempt.
NextCall ==
    \/ \E wrapper \in {"renamer", "categorizer"}, has_images \in BOOLEAN :
          /\ has_images => wrapper = "renamer"
          /\ CallStart(wrapper, has_images)
    \/ CallReturn
    \/ \E exc \in Errors : CallError(exc)

SpecCall == Init /\ [][NextCall]_vars

\* ------------------------------------------------------------------------
\* Properties
\* ------------------------------------------------------------------------
\* the body of run r is executing: it has set the flag and not yet left
Executing(r) == run[r].pc \in {"init", "pool"}

\* task b of run r takes a step
TaskSteps(r, b) ==
    /\ b \in DOMAIN batch'[r]
    /\ batch'[r][b] # batch[r][b]

\* C1: for each kind, at most one run of that kind is executing at any
\* time.  (Stated under SpecTwo, where a second start request arrives.)
OneRunPerKind ==
    \A r1 \in Runs, r2 \in Runs :
        (Executing(r1) /\ Executing(r2) /\ run[r1].kind = run[r2].kind)
            => r1 = r2

\* C2: once a stop request has reset the flag of a run, a task of that run
\* that stands before a guard (a queued batch, the next item) only returns:
\* it begins no classifier call, counts nothing and writes nothing, also
\* when a later start sets the flag again.  (Stated under SpecTwo.)
StoppedRunStartsNothing ==
    [][\A r \in Runs : \A b \in DOMAIN batch[r] :
          (/\ run[r].stopped
           /\ batch[r][b].pc \in {"queued", "item"}
           /\ TaskSteps(r, b))
              => /\ batch'[r][b].pc \in {"done", "cancelled"}
                 /\ store' = store
                 /\ progress' = progress]_vars

\* C3: a batch that begins after the classifier call of another batch of
\* its run failed with quota exhaustion makes no classifier call: the only
\* step it takes from before its call is a return that counts nothing.
LateBatchMakesNoCall ==
    [][\A r \in Runs : \A b \in DOMAIN batch[r] :
          (/\ batch[r][b].pc = "call"
           /\ batch[r][b].late
           /\ TaskSteps(r, b))
              => /\ batch'[r][b].pc = "done"
                 /\ progress' = progress
                 /\ run' = run]_vars

\* C4: the quota notification is not emitted more than once in a run
\* (the upper half of "exactly once").
QuotaNotifiedOnce ==
    \A r \in Runs : run[r].quota_events <= 1

\* C5: an item of a batch whose classifier call failed with a non-quota
\* error is not written to the store, and when it is counted it is counted
\* in errors.
FailedBatchCountsErrors ==
    [][\A r \in Runs : \A b \in DOMAIN batch[r] :
          (/\ batch[r][b].pc = "item"
           /\ batch[r][b].outcome = "error"
           /\ TaskSteps(r, b))
              => LET k == run[r].kind
                 IN  /\ batch'[r][b].pc # "append"
                     /\ store' = store
                     /\ progress'[k].processed > progress[k].processed
                          => progress'[k].errors = progress[k].errors + 1]_vars

\* C6: when an undo request copies the list of a kind, no task of that
\* kind stands between its store write and the append of the record.
WriteAppendAtomic ==
    [][(undoReq.pc = "idle" /\ undoReq'.pc = "restore")
          => \A r \in Runs : \A b \in DOMAIN batch[r] :
                run[r].kind = undoReq'.key => batch[r][b].pc # "append"]_vars

\* C7: a live run has ended after N successful mutations, no store call
\* has failed, and an undo request that found the N records in the list has
\* gone through them: every document is back in its state before the run,
\* for every field the run changed, and the request counts reverted = N,
\* errors = 0.
UndoRestoresRun ==
    \A r \in Runs :
        (/\ run[r].pc = "done" /\ ~run[r].dry_run
         /\ \A q \in Runs : q # r => run[q].pc = "none"
         /\ undoReq.pc = "clear" /\ undoReq.key = run[r].kind
         /\ undoReq.quiet
         /\ Len(undoReq.changes) = progress[run[r].kind].updated
         /\ storeFaults = MaxStoreFaults)
            => /\ store = InitialStore(Cardinality(Products))
               /\ undoReq.reverted = Len(undoReq.changes)
               /\ undoReq.errors = 0

\* C8: when the store write of an item fails in a live run, the undo list
\* is unchanged, the item is counted in errors and the batch goes on.
FailedWriteCounted ==
    [][\A r \in Runs : \A b \in DOMAIN batch[r] :
          (/\ batch[r][b].pc = "item"
           /\ TaskSteps(r, b)
           /\ storeFaults' < storeFaults
           /\ batch'[r][b].pc # "append")
              => LET k == run[r].kind
                 IN  /\ undo_store' = undo_store
                     /\ progress'[k].errors = progress[k].errors + 1
                     /\ batch'[r][b].pc # "raised"]_vars

FlagResetByRun ==
    \A k \in Kinds :
        running[k] => \E r \in Runs : run[r].kind = k /\ RunAlive(r)

\* C11: a classifier call whose every attempt was answered with a
\* non-quota rate-limit error never makes a sixth attempt, and when it
\* leaves the wrapper it has made exactly 5 attempts, has waited 0.5, 1, 2,
\* 4 and 8 seconds in that order, and raises the rate-limit error.
ThrottledCallBacksOffFiveTimes ==
    call.throttled = call.created =>
        /\ call.created <= 5
        /\ call.pc = "raised" =>
            /\ call.created = 5
            /\ call.waits = <<500, 1000, 2000, 4000, 8000>>
            /\ call.raised = "RateLimitError"

\* C12: an attempt answered with a quota-exhausted error ends the call: the
\* call raises in that very step, no wait is added for it, and a call that
\* has raised makes no further attempt; this also holds after earlier
\* rate-limit retries of the same call.
QuotaAnswerEndsCall ==
    [][/\ (/\ call.pc = "try"
           /\ call'.created = call.created + 1
           /\ is_quota_error(call'.error))
          => /\ call'.pc = "raised"
             /\ call'.raised # "none"
             /\ call'.waits = call.waits
       /\ call.pc = "raised" => call'.created \in {call.created, 0}]_vars

\* a quota answer after two throttled attempts of the same call
QuotaAfterRetries ==
    /\ call.pc = "raised"
    /\ is_quota_error(call.error)
    /\ call.created = 3
    /\ call.waits = <<500, 1000>>
    /\ call.raised = "RateLimitError"

\* C13: the error that answered an attempt is classified as quota-exhausted
\* exactly when it carries the insufficient_quota or billing marker, and an
\* error carrying the marker is never followed by another attempt of the
\* call.
QuotaExactlyWhenMarked ==
    call.error # NoError =>
        LET marked == call.error.message \in {"insufficient_quota", "billing"}
        IN  /\ is_quota_error(call.error) <=> marked
            /\ marked => call.pc = "raised"

\* C14: a network timeout is retried like a rate limit: a call that raises
\* on a timeout has made all 5 attempts.
TimeoutRetriedToCeiling ==
    (call.pc = "raised" /\ call.error.type = "APITimeoutError") =>
        call.created = 5

\* C15: once a stopped run has reached its terminal state (flag down, run
\* thread ended, no task of the run active), the processed counter of its
\* kind equals the number of items of the run whose handling completed, and
\* stays so.
StoppedRunCountsHandled ==
    \A r \in Runs :
        (/\ run[r].stopped
         /\ run[r].pc \in {"done", "dead"}
         /\ ~running[run[r].kind]
         /\ \A b \in DOMAIN batch[r] : Finished(r, b))
        => progress[run[r].kind].processed = run[r].handled

\* C16: a batch that a worker has begun processes all of its items even
\* when the flag is set to false meanwhile: the task returns only by the
\* step that handles its last item (or that counts the whole batch after a
\* failed classifier call).
DispatchedBatchHandlesItems ==
    [][\A r \in Runs : \A b \in DOMAIN batch[r] :
          (/\ batch[r][b].pc \in {"call", "item"}
           /\ batch'[r][b].pc = "done")
          => /\ run'[r].handled > run[r].handled
             /\ batch[r][b].pc = "item" =>
                   batch[r][b].j = Len(batch[r][b].items)]_vars

\* C17: an undo attempts one restoring write per record of its snapshot
\* and counts each as reverted or as an error; a failed restore is followed
\* by the next record; the loop ends after the last record only, with
\* reverted + errors equal to the length of the snapshot, and the list of
\* the kind is empty when the undo answers.
UndoTalliesEveryRecord ==
    [][/\ (undoReq.pc = "restore" /\ undoReq' # undoReq)
          => /\ undoReq'.reverted + undoReq'.errors
                   = undoReq.reverted + undoReq.errors + 1
             /\ undoReq'.reverted + undoReq'.errors = undoReq.i
             /\ (undoReq'.pc = "clear")
                   <=> (undoReq.i = Len(undoReq.changes))
             /\ undoReq'.pc = "restore" => undoReq'.i = undoReq.i + 1
       /\ (undoReq.pc = "clear" /\ undoReq'.pc = "idle")
          => /\ undoReq'.reverted + undoReq'.errors = Len(undoReq.changes)
             /\ undo_store'[undoReq.key] = <<>>]_vars

\* an undo has answered with one failed and one successful restore
UndoAnsweredWithFailure ==
    /\ undoReq.pc = "idle"
    /\ undoReq.errors = 1
    /\ undoReq.reverted >= 1
    /\ \A k \in Kinds : undo_store[k] = <<>>
    /\ \E r \in Runs : ~RunAlive(r) /\ run[r].handled >= 2

\* C18: a run whose loaded item list is empty never enters the Running
\* state: at the step where the run thread finds the list empty and
\* returns, the flag of its kind is not set.
EmptyLoadNeverRunning ==
    [][\A r \in Runs :
          (run[r].pc = "init" /\ run'[r].pc = "done")
          => ~running[run[r].kind]]_vars

\* C19: a failing emit of the notification sink changes nothing in the
\* pipeline: no batch is ended by an exception, none is cancelled, and no
\* run thread dies.
SinkFailureHarmless ==
    \A r \in Runs :
        /\ run[r].pc # "dead"
        /\ \A b \in DOMAIN batch[r] :
              batch[r][b].pc \notin {"raised", "cancelled"}

\* C20: the processed, updated and errors counters of a kind are changed
\* only by the threads of a run of that kind (its run thread and its
\* workers, which hold the lock when they count), so no count is
\* overwritten by anyone else.
CountersChangedByRunOnly ==
    [][\A k \in Kinds :
          (\/ progress'[k].processed # progress[k].processed
           \/ progress'[k].updated # progress[k].updated
           \/ progress'[k].errors # progress[k].errors)
          => \E r \in Runs :
                /\ run[r].kind = k
                /\ run'[r] # run[r] \/ batch'[r] # batch[r]]_vars

\* C21: a list of N items is split into ceil(N / B) batches; batch k
\* (counted from 0) holds the items at the indices from k * B up to, not
\* including, min((k + 1) * B, N), in their order, and is given k * B as
\* its start index.
BatchesCoverItemsInOrder ==
    (calc.op = "batches" /\ calc.done) =>
        LET N == Len(calc.products)
            ts == calc.tasks
        IN  /\ Len(ts) * BATCH_SIZE >= N
            /\ (Len(ts) - 1) * BATCH_SIZE < N
            /\ \A k \in 0..(Len(ts) - 1) :
                  LET lo == k * BATCH_SIZE
                      hi == IF (k + 1) * BATCH_SIZE < N
                            THEN (k + 1) * BATCH_SIZE ELSE N
                      t == ts[k + 1]
                  IN  /\ t.batch_start = lo
                      /\ Len(t.items) = hi - lo
                      /\ \A j \in 1..(hi - lo) :
                            t.items[j] = calc.products[lo + j]

\* a list that splits into two full batches and a last batch of one item
SplitWithShortLastBatch ==
    /\ calc.op = "batches" /\ calc.done
    /\ Len(calc.products) = 2 * BATCH_SIZE + 1
    /\ Len(calc.tasks) = 3
    /\ Len(calc.tasks[3].items) = 1
    /\ calc.products[1].id # calc.products[2].id

\* C22: no item is handled twice within one run: neither by two batches or
\* two workers, nor in both phases of a targeted run.
NoItemHandledTwice ==
    \A r \in Runs : run[r].again = {}

\* a targeted run has ended after handling the items of phase 1 and the
\* item of phase 2
BothPhasesHandled ==
    \E r \in Runs :
        /\ run[r].kind = "categorizer_targeted"
        /\ run[r].pc = "done"
        /\ run[r].phase = 2
        /\ run[r].once = Products
        /\ run[r].handled = Cardinality(Products)

\* the comparisons of the cascade between a token and a candidate id
ExactMatch(token, id) == token = id

CaseInsensitiveMatch(token, id) == lower(token) = lower(id)

SubstringMatch(token, id) ==
    \/ contains(lower(token), lower(id))
    \/ contains(lower(id), lower(token))

\* C23: the resolver returns "no match" or the id of a candidate that
\* matches the token exactly, case-insensitively or as a substring; an
\* empty token, an empty candidate list and a token that no candidate
\* matches by any of the three comparisons give "no match".
ResolveReturnsMatchOrNone ==
    (calc.op = "best_match" /\ calc.done) =>
        LET token == calc.returned_id
            ids == {calc.valid_items[i].id : i \in DOMAIN calc.valid_items}
            Matches(id) == \/ ExactMatch(token, id)
                           \/ CaseInsensitiveMatch(token, id)
                           \/ SubstringMatch(token, id)
        IN  /\ calc.result # None =>
                  (calc.result \in ids /\ Matches(calc.result))
            /\ (token = <<>> \/ ids = {} \/ \A id \in ids : ~Matches(id))
                  => calc.result = None

\* a token that neither candidate matches was resolved to "no match"
NoMatchAmongCandidates ==
    /\ calc.op = "best_match" /\ calc.done
    /\ calc.returned_id # <<>>
    /\ Len(calc.valid_items) = 2
    /\ \A i \in 1..2 : ~SubstringMatch(calc.returned_id, calc.valid_items[i].id)
    /\ calc.result = None

\* C24: the steps are applied in strict priority over the whole list: a
\* candidate equal to the token is returned if there is one; otherwise a
\* candidate equal to it case-insensitively if there is one, even when an
\* earlier candidate matches by substring; substring matching decides only
\* when neither exists.
ResolvePriorityOverList ==
    (calc.op = "best_match" /\ calc.done /\ calc.returned_id # <<>>) =>
        LET token == calc.returned_id
            ids == {calc.valid_items[i].id : i \in DOMAIN calc.valid_items}
        IN  IF \E id \in ids : ExactMatch(token, id)
            THEN calc.result = token
            ELSE IF \E id \in ids : CaseInsensitiveMatch(token, id)
                 THEN /\ calc.result \in ids
                      /\ CaseInsensitiveMatch(token, calc.result)
                 ELSE calc.result # None =>
                         /\ Len(calc.result) >= min_partial_len
                         /\ SubstringMatch(token, calc.result)

\* the second candidate, equal to the token but for case, was returned
\* although the first candidate contains the token
CaseInsensitiveBeforeSubstring ==
    /\ calc.op = "best_match" /\ calc.done
    /\ Len(calc.valid_items) = 2
    /\ calc.result = calc.valid_items[2].id
    /\ calc.result # calc.returned_id
    /\ CaseInsensitiveMatch(calc.returned_id, calc.result)
    /\ Len(calc.valid_items[1].id) >= min_partial_len
    /\ ~CaseInsensitiveMatch(calc.returned_id, calc.valid_items[1].id)
    /\ SubstringMatch(calc.returned_id, calc.valid_items[1].id)

\* C25: a batch whose first parsed result is all-unresolved is sent to
\* the classifier exactly one more time, with the reinforced prompt, and
\* whatever that retry gives the call ends without a further request; a
\* batch whose first result has a resolved slot is never sent again.
AllUnresolvedRetriedOnce ==
    calc.op = "get_categories_batch" =>
        /\ calc.retries <= 1
        /\ (calc.pc \in {"returned", "raised"} /\ calc.first = "all_none")
              => calc.retries = 1
        /\ calc.first = "some" => calc.retries = 0

\* C26: a reply that gives its tokens as a JSON object, fenced or not, and
\* a reply that gives them as numbered lines parse to the same array: the
\* slot of each index of the batch holds the resolution of its token, and
\* the other slots are unresolved.
JsonAndNumberedLinesParseAlike ==
    (/\ calc.op = "get_categories_batch"
     /\ calc.pc = "parsed"
     /\ calc.reply.form \in {"json", "lines"})
    => \A slot \in 1..NumNames :
          LET asg == calc.reply.asg
              at == {i \in DOMAIN asg : asg[i][1] = slot}
          IN  calc.results[slot] =
                 IF at = {} THEN NoneNone
                 ELSE resolve_sub(asg[CHOOSE i \in at : TRUE][2])

\* numbered lines in the order 2, 1 were parsed and both slots resolved
NumberedLinesOutOfOrderParsed ==
    /\ calc.op = "get_categories_batch"
    /\ calc.pc = "parsed"
    /\ calc.reply.form = "lines"
    /\ Len(calc.reply.asg) = 2
    /\ calc.reply.asg[1][1] = 2
    /\ calc.reply.asg[2][1] = 1
    /\ calc.results[1].subcategory_id = <<"a", "b">>
    /\ calc.results[2].subcategory_id = <<"b">>

\* every item the run loaded was handled
AllHandled(r) ==
    /\ batch[r] # <<>>
    /\ run[r].phase2 # <<>> => run[r].phase = 2
    /\ \A b \in DOMAIN batch[r] : ItemIds(batch[r][b]) \subseteq run[r].once

\* what a finished run was: "completed" (all items handled, neither
\* stopped nor halted by the quota), "aborted" (halted by the quota),
\* "stopped"
Outcome(r) ==
    CASE ~run[r].stopped /\ ~run[r].quota_seen /\ AllHandled(r) -> "completed"
      [] ~run[r].stopped /\ run[r].quota_seen -> "aborted"
      [] run[r].stopped /\ ~run[r].quota_seen -> "stopped"
      [] OTHER -> "other"

\* what the run function returned and what the status route tells of the
\* state of the run
TerminalReport(r) ==
    [result |-> run[r].result, running |-> running[run[r].kind]]

\* C27: the terminal state of a run tells its outcome: two finished runs of
\* which one completed, one was halted by the quota or one was stopped,
\* each with a different outcome, never report the same terminal state.
OutcomesDistinguished ==
    \A r1, r2 \in Runs :
        (/\ run[r1].pc = "done" /\ run[r2].pc = "done"
         /\ Outcome(r1) # Outcome(r2)
         /\ {Outcome(r1), Outcome(r2)}
               \subseteq {"completed", "aborted", "stopped"})
        => TerminalReport(r1) # TerminalReport(r2)

\* C28: at the end of a run the retained log holds, for every item the run
\* processed, the line that tells its outcome.
LogKeepsEveryOutcome ==
    (calc.op = "log" /\ calc.pc = "ended") =>
        \A i \in 1..calc.processed :
            \E n \in DOMAIN calc.logs :
                /\ calc.logs[n].line = "outcome"
                /\ calc.logs[n].item = i

\* C29: the final clear of an undo request removes only records of the
\* copy the request went through: when it clears, the list of its kind
\* holds nothing beyond that copy.
UndoClearsOnlyCopied ==
    [][(undoReq.pc = "clear" /\ undoReq'.pc = "idle")
          => \A n \in DOMAIN undo_store[undoReq.key] :
                /\ n \in DOMAIN undoReq.changes
                /\ undoReq.changes[n] = undo_store[undoReq.key][n]]_vars

\* a task of a run of kind k that can still write to the store or append
\* to the list: one holding a written record it has yet to append, or one
\* not yet ended while the flag is up
CanStillWrite(k) ==
    \E r \in Runs : \E b \in DOMAIN batch[r] :
        /\ run[r].kind = k
        /\ \/ batch[r][b].pc = "append"
           \/ running[k] /\ batch[r][b].pc \in {"queued", "call", "item"}

\* C30: while a task of a kind can still write or append, an undo request
\* of that kind neither restores a document nor clears the list.
UndoWaitsForWorkers ==
    [][(undoReq.pc \in {"restore", "clear"} /\ CanStillWrite(undoReq.key))
          => undoReq' = undoReq]_vars

\* what the load of run r finds in the store as it is
LoadFinds(r) ==
    CASE run[r].kind = "renamer" -> Len(get_products_from_firestore)
      [] run[r].kind = "categorizer" -> Len(load_products)
      [] OTHER -> Len(Phase1Products)
                     + Len(Phase2Products(run[r].include_others))

\* C31: a run whose load finds nothing, and which therefore ends before
\* handling any item, begins after the run of its kind before it has
\* ended: its beginning leaves the undo list of that run unchanged.
EmptyRunKeepsUndoLog ==
    [][\A r1 \in Runs : \A r2 \in Runs :
          (/\ r1 # r2 /\ run[r1].kind = run[r2].kind
           /\ run[r1].pc = "done" /\ ~running[run[r1].kind]
           /\ run[r2].pc = "spawned" /\ run'[r2].pc = "init"
           /\ LoadFinds(r2) = 0)
              => undo_store' = undo_store]_vars

\* C32: runs of different kinds are independent: while a run of a kind
\* goes on, the tokens its progress shows never decrease, whatever the
\* runs of the other kinds do.
TokensShownNeverDecrease ==
    [][calc.op = "tokens" =>
          \A k \in Kinds :
              (calc.running[k] /\ calc'.running[k])
                  => calc'.shown[k] >= calc.shown[k]]_vars

\* the sum of the outcome counters of a progress dictionary
OutcomeSum(p) ==
    p.updated + p.errors
      + (IF "unchanged" \in DOMAIN p THEN p.unchanged ELSE 0)
      + (IF "skipped" \in DOMAIN p THEN p.skipped ELSE 0)

\* C33: in every state, for every kind, processed is the sum of the
\* outcome counters and does not exceed total.
CountersAddUp ==
    \A k \in Kinds :
        /\ progress[k].processed = OutcomeSum(progress[k])
        /\ progress[k].processed <= progress[k].total

\* C34: a run that is never stopped comes to its end with the flag of its
\* kind down and every item counted: processed equals total.
UnstoppedRunCountsAll ==
    \A r \in 1..MaxRuns :
        (run[r].pc = "spawned")
            ~> (/\ run[r].pc = "done"
                /\ ~running[run[r].kind]
                /\ progress[run[r].kind].processed
                      = progress[run[r].kind].total)

\* C35: a thread takes the lock of its object before the undo lock and
\* never the other way round, no thread acquires a lock it holds, and in
\* no state is every thread waiting for a lock.
LocksOrderedNoDeadlock ==
    calc.op = "locks" =>
        /\ \A t \in Threads :
              NextOp(t)[1] = "acquire" =>
                  /\ NextOp(t)[2] \notin calc.held[t]
                  /\ NextOp(t)[2] # "undo" => "undo" \notin calc.held[t]
        /\ \E t \in Threads : ~Blocked(t)

\* a categorizer worker holds its object's lock and the undo lock while
\* the undo request and the other categorizer worker wait
WorkerHoldsBothOthersWait ==
    /\ calc.op = "locks"
    /\ calc.held["cat_worker_1"] = {"agent", "undo"}
    /\ Blocked("undo_request")
    /\ Blocked("cat_worker_2")
    /\ Blocked("targeted_worker")

\* C36: when the read before the write of a categorizer item fails in a
\* live run, the document is written all the same and the task goes on to
\* append a record whose prior state is empty; the append then puts that
\* record on the list of the kind and the item counts as updated.
FailedReadStillWrites ==
    [][\A r \in Runs : \A b \in DOMAIN batch[r] :
          LET k == run[r].kind
              t == batch[r][b]
          IN  /\ (/\ k # "renamer" /\ t.pc = "item"
                  /\ batch'[r][b].pc = "append"
                  /\ storeFaults' < storeFaults)
                    => /\ ~run[r].dry_run
                       /\ batch'[r][b].pending.old_data = NoCategoryFields
                       /\ store'[t.items[t.j].id].cats
                             = batch'[r][b].pending.new_data
              /\ (/\ k # "renamer" /\ t.pc = "append"
                  /\ batch'[r][b].pc # "append")
                    => /\ undo_store'[k] = Append(undo_store[k], t.pending)
                       /\ progress'[k].updated = progress[k].updated + 1]_vars

\* a record with an empty prior state is on the list of a categorizer and
\* its item was counted as updated
EmptyPriorStateRecorded ==
    \E k \in Kinds \ {"renamer"} :
        /\ \E n \in DOMAIN undo_store[k] :
              undo_store[k][n].old_data = NoCategoryFields
        /\ progress[k].updated > 0
        /\ storeFaults < MaxStoreFaults

\* the subcategories of the vocabulary, as a set
Vocabulary == {reply_subcategories[i] : i \in DOMAIN reply_subcategories}

\* C37: the result of a parse has one slot for each item of the batch; a
\* slot is unresolved or holds the id of a subcategory of the vocabulary
\* with the category id of that subcategory; when no line of the text
\* resolves, every slot is unresolved.
ParsedSlotsFromVocabulary ==
    (calc.op = "parse_batch_raw" /\ calc.pc = "parsed") =>
        /\ DOMAIN calc.results = 1..NumNames
        /\ \A slot \in 1..NumNames :
              \/ calc.results[slot] = NoneNone
              \/ \E sub \in Vocabulary :
                    calc.results[slot] =
                        [category_id |-> sub.categoryId,
                         subcategory_id |-> sub.id]
        /\ (\A i \in DOMAIN calc.raw :
               /\ best_match(calc.raw[i].tok, reply_subcategories) = None
               /\ best_match(line_text(calc.raw[i]), reply_subcategories)
                     = None)
              => all_none(calc.results)

\* of two numbered lines the one with a token of the vocabulary filled its
\* slot with the subcategory and its category, the other left its slot
\* unresolved
OneSlotFilledOneUnresolved ==
    /\ calc.op = "parse_batch_raw" /\ calc.pc = "parsed"
    /\ calc.raw = <<Numbered(1, <<"a", "a">>), Numbered(2, <<"a", "b">>)>>
    /\ calc.results[1] = NoneNone
    /\ calc.results[2] = [category_id |-> <<"c", "1">>,
                          subcategory_id |-> <<"a", "b">>]

\* a member or line whose number is no number of the batch
BadIndex(x) ==
    /\ x.t \in {"member", "numbered"}
    /\ x.n \notin 1..NumNames

NoBadIndex(x) == ~BadIndex(x)

\* C38: in a reply of lines "n. tok", a line whose n is 0, negative,
\* beyond the batch or no number is discarded: the parse gives what it
\* gives for the reply without those lines.
BadIndexLinesDiscarded ==
    (/\ calc.op = "parse_batch_raw" /\ calc.pc = "parsed"
     /\ \A i \in DOMAIN calc.raw : calc.raw[i].t = "numbered")
        => calc.results
              = parse_batch_raw(SelectSeq(calc.raw, NoBadIndex), NumNames)

\* C39: the parse follows one strategy only.  When a JSON object is found
\* and decodes, the slots are those the object fills, whatever lines the
\* text holds besides; otherwise, when a line has a number before its dot,
\* they are those the numbered lines fill; the lines are taken in sequence
\* only when neither is the case.
ParseFollowsFirstStrategy ==
    (calc.op = "parse_batch_raw" /\ calc.pc = "parsed") =>
        /\ json_decodes(calc.raw)
              => /\ calc.results = json_fill(calc.raw, NumNames)
                 /\ \A slot \in 1..NumNames :
                       calc.results[slot] # NoneNone
                          => \E i \in DOMAIN calc.raw :
                                /\ calc.raw[i].t = "member"
                                /\ calc.raw[i].n = slot
        /\ (~json_decodes(calc.raw) /\ has_numbered(calc.raw))
              => /\ calc.results = numbered_fill(calc.raw, NumNames)
                 /\ \A slot \in 1..NumNames :
                       calc.results[slot] # NoneNone
                          => \E i \in DOMAIN calc.raw :
                                /\ calc.raw[i].t = "numbered"
                                /\ calc.raw[i].n = slot
        /\ (~json_decodes(calc.raw) /\ ~has_numbered(calc.raw))
              => calc.results = sequential_fill(calc.raw, NumNames)

\* a JSON object whose only key is beyond the batch was followed by a
\* numbered line for item 1 with an id of the vocabulary: the object was
\* decoded, and no slot is filled
JsonWithoutSlotEndsParse ==
    /\ calc.op = "parse_batch_raw" /\ calc.pc = "parsed"
    /\ calc.raw = <<LB, Member(NumNames + 1, <<"a", "b">>), RB,
                    Numbered(1, <<"a", "b">>)>>
    /\ all_none(calc.results)

\* C40: when a request with images of a renamer batch fails on an image
\* and the loop turns the batch into text, the text request is made: the
\* call goes round once more before it can fail.
ImageErrorFollowedByTextCall ==
    [][(/\ call.pc = "try" /\ call.wrapper = "renamer"
        /\ call.has_images /\ ~call'.has_images
        /\ call'.created = call.created + 1)
          => call'.pc = "try"]_vars

====
